---------------------------- MODULE Spec2Model ----------------------------
(***************************************************************************)
(* Usage-statistics dispatch of great_expectations:                        *)
(*   core/logging/usage_statistics.py  (UsageStatisticsHandler, the        *)
(*   usage_statistics_enabled_method decorator) and core/logging/          *)
(*   anonymizer.py.                                                        *)
(*                                                                         *)
(* One UsageStatisticsHandler is modelled with its message queue, its      *)
(* daemon worker thread, the signal handler _teardown and the atexit hook  *)
(* _close_worker.  Producers are the main thread and one other thread.     *)
(* Signal handlers run on the main thread, on top of whatever it was       *)
(* doing: the frames of running _teardown calls are kept in sigStack.      *)
(*                                                                         *)
(* Spec, SpecEmit, SpecCall and SpecSend take each put on the queue as one *)
(* step; SpecLock takes the puts of the main thread in two, around the     *)
(* queue's lock, and states the scheduling of the threads.  SpecChain has  *)
(* two handlers constructed one after the other, SpecRegistry the module's *)
(* registry of Anonymizer objects under two threads, SpecClassify the      *)
(* function Anonymizer.anonymize_object_info on its own.                   *)
(***************************************************************************)
EXTENDS Naturals, Sequences, FiniteSets

(* ------------------------------ bounds -------------------------------- *)
\* messages accepted by emit in one behaviour (direct and from the decorator)
MaxEmits == 2
\* signals delivered in one behaviour
MaxSignals == 2
\* calls of a decorated method in one behaviour
MaxCalls == 1
\* calls of send_usage_message in one behaviour
MaxSends == 2
\* length of the ge_classes list handed to anonymize_object_info
MaxGeClasses == 2
\* calls of run_validation_operator_usage_statistics in one behaviour
MaxRegCalls == 2
\* messages put on the queues of the two dispatchers of SpecChain
MaxChainPuts == 2

(* ----------------------------- vocabulary ----------------------------- *)
Threads == {"main", "t1"}
Signals == {"SIGTERM", "SIGINT", "SIGQUIT"}
\* what signal.signal() returns for the handler installed before: a Python
\* callable, or one of the two non-callable dispositions
Dispositions == {"callable", "SIG_DFL", "SIG_IGN"}
\* What the three signals were set to before the handler was constructed: the
\* interpreter's defaults, a host with handlers of its own, a host that ignores
SavedConfigs ==
    { [SIGTERM |-> "SIG_DFL", SIGINT |-> "callable", SIGQUIT |-> "SIG_DFL"],
      [SIGTERM |-> "callable", SIGINT |-> "SIG_IGN", SIGQUIT |-> "callable"],
      [SIGTERM |-> "SIG_IGN", SIGINT |-> "SIG_DFL", SIGQUIT |-> "SIG_IGN"] }
InitEvent == "data_context.__init__"
OtherEvent == "data_context.run_validation_operator"
\* the subclasses of Exception that the steps of emit can raise
ExceptionKinds == {"TypeError", "KeyError", "ValidationError", "SchemaError", "AttributeError"}
\* what a callable handler saved from before does when called
HandlerOutcomes == {"returns", "raises"}
PostOutcomes == {"status_2xx", "status_error", "raises"}
FailedPost == {"status_error", "raises"}
None == "None"

\* STOP_SIGNAL = object(): a value no message is equal to
STOP_SIGNAL == [kind |-> "STOP", seq |-> 0, event |-> "-", event_payload |-> "-",
                success |-> "-", enveloped |-> FALSE, schema |-> "-"]
NoMessage == [kind |-> "none", seq |-> 0, event |-> "-", event_payload |-> "-",
              success |-> "-", enveloped |-> FALSE, schema |-> "-"]

\* The messages callers hand to emit.  shape: whether the argument is a mapping
\* at all; hasEvent: whether it has the "event" key; schema: what
\* jsonschema.validate does with the enveloped message under
\* usage_statistics_record_schema; initBuild: what build_init_payload does for
\* this data context.
RawMessage(shape, hasEvent, event, success, schema, initBuild) ==
    [shape |-> shape, hasEvent |-> hasEvent, event |-> event,
     event_payload |-> "caller_payload", success |-> success,
     schema |-> schema, initBuild |-> initBuild]
DirectMessages ==
    { RawMessage("not_mapping", FALSE, "-", "absent", "conforms", "ok"),
      RawMessage("mapping", FALSE, "-", "absent", "conforms", "ok"),
      RawMessage("mapping", TRUE, OtherEvent, "true", "conforms", "ok"),
      RawMessage("mapping", TRUE, OtherEvent, "absent", "violates", "ok"),
      RawMessage("mapping", TRUE, OtherEvent, "false", "schema_error", "ok"),
      RawMessage("mapping", TRUE, InitEvent, "absent", "conforms", "ok"),
      RawMessage("mapping", TRUE, InitEvent, "true", "conforms", "ok"),
      RawMessage("mapping", TRUE, InitEvent, "absent", "conforms", "raises") }

\* the two messages that decide what reaches the queue: one the schema accepts,
\* one it rejects
CoreMessages ==
    { RawMessage("mapping", TRUE, OtherEvent, "true", "conforms", "ok"),
      RawMessage("mapping", TRUE, OtherEvent, "absent", "violates", "ok") }

VARIABLES
    queue,          \* self._message_queue: the items put and not yet got
    workerPc,       \* where self._worker is: "get", "post", "draining", "exited", "died"
    inflight,       \* the message the worker is POSTing
    posted,         \* the messages a POST was attempted for, in order (by their put number)
    lastPost,       \* the outcome of the last POST attempted
    lastPosted,     \* the last POST attempted: its url and its json body
    nPuts,          \* puts made on the queue so far
    firstStop,      \* the put number of the first STOP_SIGNAL, 0 while there is none
    nAccepted,      \* emit calls so far whose message passed validation
    emitPc,         \* per thread: "idle", or "put" (inside emit, about to put)
    emitMsg,        \* per thread: the message its emit is about to put
    lastEmit,       \* the last emit call: its input, what it raised, whether it goes on to put
    mainPc,         \* the main program: "run", "atexit_join", "done"
    sigStack,       \* frames of the _teardown calls running on the main thread
    nSignals,       \* signals delivered so far
    saved,          \* _sigterm_handler, _sigint_handler, _sigquit_handler
    nForwards,      \* forwarding steps of _teardown made so far
    lastForward,    \* the last forwarding step of _teardown
    closeReturned,  \* _close_worker calls that have returned
    nCalls,         \* calls of the decorated method made so far
    call,           \* the last call of the decorated method: its inputs, what its
                    \* caller observed, what it passed to emit
    nSends,         \* calls of send_usage_message made so far
    send,           \* the last call of send_usage_message: its inputs, what it
                    \* raised, whether a message of it goes on to the put
    clsIn,          \* the arguments of the anonymize_object_info call
    clsOut,         \* what the call returned
    registry,       \* _anonymizers: per owner id the Anonymizer stored, or NoContext
    firstStored,    \* per owner id the first Anonymizer ever stored for it
    nContexts,      \* Anonymizer objects created so far
    regPc,          \* per thread, in run_validation_operator_usage_statistics:
                    \* "idle", "get", "create", "store", "anonymize"
    regCall,        \* per thread: the owner id and operator name of its call, its
                    \* local variable anonymizer, and once returned the digest
    nRegCalls,      \* calls of run_validation_operator_usage_statistics so far
    chQueue,        \* two dispatchers: the queue of each
    chWorker,       \* the worker of each: "get", "post", "draining", "exited", "died"
    chStack,        \* frames of the _teardown calls running on the main thread
    chSignal,       \* the signal delivered, None before
    chLog,          \* the joins that returned and the call of the original
                    \* disposition, in order, each with the workers' states
    nChainPuts,     \* messages put on the two queues so far
    mutex           \* who holds self._message_queue.mutex: None, or the put of the
                    \* main thread that took it ("emit", "teardown", "atexit")

dispatcherVars == <<queue, workerPc, inflight, posted, lastPost, lastPosted, nPuts, firstStop>>
emitVars == <<nAccepted, emitPc, emitMsg, lastEmit>>
mainVars == <<mainPc, sigStack, nSignals, saved, nForwards, lastForward, closeReturned>>
callVars == <<nCalls, call>>
lockVars == <<mutex>>
sendVars == <<nSends, send>>
classifyVars == <<clsIn, clsOut>>
registryVars == <<registry, firstStored, nContexts, regPc, regCall, nRegCalls>>
chainVars == <<chQueue, chWorker, chStack, chSignal, chLog, nChainPuts>>
extVars == <<lockVars, sendVars, classifyVars, registryVars, chainVars>>
\* what the anonymizer registry and the two-dispatcher steps leave alone
otherVars == <<dispatcherVars, emitVars, mainVars, callVars, lockVars, sendVars, classifyVars>>
vars == <<dispatcherVars, emitVars, mainVars, callVars, extVars>>

(* ------------------------------ the queue ------------------------------ *)
\* queue.Queue: put appends at the tail, get takes the head.  A message is
\* stamped with the number of its put, its place in the order of all puts.
Stamped(item, n) == IF item.kind = "msg" THEN [item EXCEPT !.seq = n] ELSE item
\* a queue that puts at the head (queue.LifoQueue in place of queue.Queue)
QueuePut_Lifo(q, item, n) == <<Stamped(item, n)>> \o q
QueuePut(q, item, n) == Append(q, Stamped(item, n))
QueueGet(q) == Head(q)
\* a get that leaves the item on the queue
QueueRest_Peek(q) == q
QueueRest(q) == Tail(q)

(* ---------------------------- worker thread ---------------------------- *)
\* the process is running Python code (daemon threads end with it)
ProcessAlive == mainPc # "done"
WorkerAlive == workerPc \in {"get", "post", "draining"}
\* the states of section 4.4 of the design
WorkerState ==
    IF workerPc \in {"get", "post"} THEN "Running"
    ELSE IF workerPc = "draining" THEN "Draining" ELSE "Stopped"

\* message = self._message_queue.get(); if message == STOP_SIGNAL: ...
WorkerGet ==
    /\ ProcessAlive
    /\ workerPc = "get"
    /\ mutex = None
    /\ Len(queue) > 0
    /\ LET message == QueueGet(queue) IN
         IF message = STOP_SIGNAL
         THEN workerPc' = "draining" /\ inflight' = inflight
         ELSE workerPc' = "post" /\ inflight' = message
    /\ queue' = QueueRest(queue)
    /\ UNCHANGED <<posted, lastPost, lastPosted, nPuts, firstStop, emitVars, mainVars, callVars, extVars>>

\* self._message_queue.task_done(); return
WorkerStop ==
    /\ ProcessAlive
    /\ workerPc = "draining"
    /\ mutex = None
    /\ workerPc' = "exited"
    /\ UNCHANGED <<queue, inflight, posted, lastPost, lastPosted, nPuts, firstStop, emitVars, mainVars, callVars, extVars>>

\* self._url, the address every POST goes to
Url == "usage_statistics_url"
NoPost == [url |-> None, json |-> NoMessage]

\* Where the worker is after session.post ended with outcome: a response of any
\* status is logged and the loop goes on; an exception of the transport is
\* caught nowhere in _requests_worker, so it ends the thread.
AfterPost(outcome) == IF outcome = "raises" THEN "died" ELSE "get"

\* res = session.post(self._url, json=message); logger.debug(...); task_done()
WorkerPost(outcome) ==
    /\ ProcessAlive
    /\ workerPc = "post"
    /\ posted' = Append(posted, inflight.seq)
    /\ lastPost' = outcome
    /\ lastPosted' = [url |-> Url, json |-> inflight]
    /\ workerPc' = AfterPost(outcome)
    /\ inflight' = NoMessage
    /\ UNCHANGED <<queue, nPuts, firstStop, emitVars, mainVars, callVars, extVars>>

(* -------------------------------- emit --------------------------------- *)
\* build_envelope: stamps the protocol fields on the message
build_envelope(message) == [message EXCEPT !.enveloped = TRUE]

\* validate_message with the ValidationError branch returning True as well
validate_message_AcceptsAll(message) ==
    IF message.schema \in {"conforms", "violates"} THEN [exc |-> None, ok |-> TRUE]
    ELSE [exc |-> "SchemaError", ok |-> FALSE]

\* validate_message: True, False on jsonschema.ValidationError; any other
\* exception of jsonschema.validate leaves it
validate_message(message) ==
    IF message.schema = "conforms" THEN [exc |-> None, ok |-> TRUE]
    ELSE IF message.schema = "violates" THEN [exc |-> None, ok |-> FALSE]
    ELSE [exc |-> "SchemaError", ok |-> FALSE]

\* emit that leaves the caller's event_payload in place for every event
EventPayload_KeepsCallers(m) == m.event_payload

\* if message["event"] == "data_context.__init__":
\*     message["event_payload"] = self.build_init_payload()
EventPayload(m) == IF m.event = InitEvent THEN "init_payload" ELSE m.event_payload

\* emit with "except KeyError: pass" in place of the catch-all
EmitCatches_OnlyKeyError(exc) == exc = "KeyError"

\* except Exception: pass
EmitCatches(exc) == exc \in ExceptionKinds

\* The try block of emit on raw message m:
\* [exc: what it raised, put: whether it reaches the put, message]
EmitTry(m) ==
    IF m.shape # "mapping" THEN [exc |-> "TypeError", put |-> FALSE, message |-> NoMessage]
    ELSE IF ~m.hasEvent THEN [exc |-> "KeyError", put |-> FALSE, message |-> NoMessage]
    ELSE IF m.event = InitEvent /\ m.initBuild = "raises"
    THEN [exc |-> "AttributeError", put |-> FALSE, message |-> NoMessage]
    ELSE LET payload == EventPayload(m)
             message == build_envelope(
                 [kind |-> "msg", seq |-> 0, event |-> m.event, event_payload |-> payload,
                  success |-> m.success, enveloped |-> FALSE, schema |-> m.schema])
             v == validate_message(message)
         IN IF v.exc # None THEN [exc |-> v.exc, put |-> FALSE, message |-> NoMessage]
            ELSE IF ~v.ok THEN [exc |-> None, put |-> FALSE, message |-> NoMessage]
            ELSE [exc |-> None, put |-> TRUE, message |-> message]

\* emit up to its put: what leaves the try/except
emit(m) ==
    LET r == EmitTry(m) IN
      IF r.exc # None /\ EmitCatches(r.exc) THEN [r EXCEPT !.exc = None] ELSE r

\* thread t is running the host program (not a signal handler, not the exit hooks)
HostRuns(t) == IF t = "main" THEN mainPc = "run" /\ sigStack = <<>> ELSE ProcessAlive

\* thread t enters emit(m): everything before self._message_queue.put
EmitBegin(t, m) ==
    /\ HostRuns(t)
    /\ emitPc[t] = "idle"
    /\ LET r == emit(m) IN
         /\ r.put => nAccepted < MaxEmits
         /\ nAccepted' = IF r.put THEN nAccepted + 1 ELSE nAccepted
         /\ lastEmit' = [input |-> m, raised |-> r.exc, put |-> r.put,
                         workerState |-> WorkerState]
         /\ IF r.put
            THEN /\ emitPc' = [emitPc EXCEPT ![t] = "put"]
                 /\ emitMsg' = [emitMsg EXCEPT ![t] = r.message]
            ELSE UNCHANGED <<emitPc, emitMsg>>
    /\ UNCHANGED <<dispatcherVars, mainVars, callVars, extVars>>

\* self._message_queue.put(message), and emit returns
EmitPut(t) ==
    /\ IF t = "main" THEN sigStack = <<>> ELSE ProcessAlive
    /\ emitPc[t] = "put"
    /\ mutex = None
    /\ queue' = QueuePut(queue, emitMsg[t], nPuts + 1)
    /\ nPuts' = nPuts + 1
    /\ emitPc' = [emitPc EXCEPT ![t] = "idle"]
    /\ emitMsg' = [emitMsg EXCEPT ![t] = NoMessage]
    /\ UNCHANGED <<workerPc, inflight, posted, lastPost, lastPosted, firstStop, nAccepted, lastEmit, mainVars, callVars, extVars>>

(* -------------------------- shutdown, signals -------------------------- *)
\* _close_worker without the join: nothing is waited for
JoinReturns_NoWait == TRUE

\* _close_worker waiting for the queue to be worked off (self._message_queue.join())
\* in place of the thread
JoinReturns_QueueJoin == queue = <<>> /\ workerPc # "post"

\* self._worker.join() returns once the thread has ended
JoinReturns == ~WorkerAlive

\* self._message_queue.put(STOP_SIGNAL) of _close_worker
PutStop ==
    /\ queue' = QueuePut(queue, STOP_SIGNAL, nPuts + 1)
    /\ nPuts' = nPuts + 1
    /\ firstStop' = IF firstStop = 0 THEN nPuts + 1 ELSE firstStop

\* The saved handler _teardown calls for signum: the one saved for that signal
SavedHandlerFor(signum) == signum

\* A signal arrives: _teardown(signum, frame) starts on the main thread, on top
\* of what it was doing, and _close_worker puts STOP_SIGNAL
Teardown(signum) ==
    /\ ProcessAlive
    /\ nSignals < MaxSignals
    /\ nSignals' = nSignals + 1
    /\ PutStop
    /\ sigStack' = Append(sigStack, [signum |-> signum, pc |-> "join"])
    /\ UNCHANGED <<workerPc, inflight, posted, lastPost, lastPosted, emitVars,
                   mainPc, saved, nForwards, lastForward, closeReturned, callVars, extVars>>

Top == sigStack[Len(sigStack)]
Pop == SubSeq(sigStack, 1, Len(sigStack) - 1)

\* self._worker.join() of the innermost _teardown returns
TeardownJoin ==
    /\ sigStack # <<>>
    /\ Top.pc = "join"
    /\ JoinReturns
    /\ sigStack' = [sigStack EXCEPT ![Len(sigStack)].pc = "forward"]
    /\ closeReturned' = closeReturned + 1
    /\ UNCHANGED <<dispatcherVars, emitVars, mainPc, nSignals, saved, nForwards, lastForward, callVars, extVars>>

\* self._sigXXX_handler(signum, frame).  A callable runs, and returns or raises
\* (signal.default_int_handler raises KeyboardInterrupt).  Calling SIG_DFL or
\* SIG_IGN raises TypeError.  An exception leaves every _teardown running and
\* reaches the interrupted code: an emit in progress is abandoned, an atexit
\* hook is abandoned, and the host program is left to deal with it.
TeardownForward(handlerOutcome) ==
    /\ sigStack # <<>>
    /\ Top.pc = "forward"
    /\ LET h == SavedHandlerFor(Top.signum)
           callable == saved[h] = "callable"
       IN /\ lastForward' = [signum |-> Top.signum, handlerOf |-> h,
                             disposition |-> saved[h], invoked |-> callable,
                             raised |-> IF callable THEN None ELSE "TypeError",
                             handlerOutcome |-> IF callable THEN handlerOutcome ELSE "-",
                             workerState |-> WorkerState]
          /\ nForwards' = nForwards + 1
          /\ IF callable /\ handlerOutcome = "returns"
             THEN sigStack' = Pop /\ UNCHANGED <<emitPc, emitMsg, mainPc>>
             ELSE /\ sigStack' = <<>>
                  /\ emitPc' = [emitPc EXCEPT !["main"] = "idle"]
                  /\ emitMsg' = [emitMsg EXCEPT !["main"] = NoMessage]
                  /\ mainPc' = IF mainPc = "atexit_join" THEN "done" ELSE mainPc
    /\ UNCHANGED <<dispatcherVars, nAccepted, lastEmit, nSignals, saved, closeReturned, callVars, extVars>>

\* The interpreter exits: the atexit hook _close_worker puts STOP_SIGNAL
AtExit ==
    /\ mainPc = "run"
    /\ sigStack = <<>>
    /\ emitPc["main"] = "idle"
    /\ PutStop
    /\ mainPc' = "atexit_join"
    /\ UNCHANGED <<workerPc, inflight, posted, lastPost, lastPosted, emitVars,
                   sigStack, nSignals, saved, nForwards, lastForward, closeReturned, callVars, extVars>>

\* self._worker.join() of the atexit hook returns; the process ends
AtExitJoin ==
    /\ mainPc = "atexit_join"
    /\ sigStack = <<>>
    /\ JoinReturns
    /\ mainPc' = "done"
    /\ closeReturned' = closeReturned + 1
    /\ UNCHANGED <<dispatcherVars, emitVars, sigStack, nSignals, saved, nForwards, lastForward, callVars, extVars>>

(* --------------------------- call interceptor -------------------------- *)
\* What a decorated method is called with: no positional argument at all, or a
\* first argument whose _usage_statistics_handler attribute, once func has run,
\* is absent, is not a UsageStatisticsHandler, is the handler, or is a property
\* that raises
ArgKinds == {"no_args", "absent", "invalid", "handler", "getattr_raises"}
ArgsArray(kind) == IF kind = "no_args" THEN <<>> ELSE <<[usage_statistics_handler |-> kind]>>
\* args_payload_fn and result_payload_fn: not given, returning a payload, raising
PayloadFns == {"none", "returns", "raises"}
\* the wrapped operation: returns a value or raises an exception of its own
FuncOutcomes ==
    { [kind |-> "return", val |-> "V1"], [kind |-> "return", val |-> "V2"],
      [kind |-> "raise", val |-> "E1"], [kind |-> "raise", val |-> "E2"] }
EventNames == {InitEvent, OtherEvent}
SchemaVerdicts == {"conforms", "violates"}
NoObservation == [kind |-> "none", val |-> "-"]

\* get_usage_statistics_handler(args_array): the handler, or None
get_usage_statistics_handler(args_array) ==
    IF Len(args_array) = 0 THEN None                                  \* IndexError
    ELSE LET handler == args_array[1].usage_statistics_handler IN
      IF handler = "getattr_raises" THEN None                          \* except Exception
      ELSE IF handler = "absent" THEN None                             \* getattr's default
      ELSE IF handler # "handler" THEN None                            \* not isinstance
      ELSE "handler"

\* The message the decorator hands to emit, with message["success"] as set
WrappedMessage(event_name, success, schema) ==
    RawMessage("mapping", TRUE, event_name, success, schema, "ok")

\* handler.emit(message) when a handler is at hand: the messages passed to emit,
\* the exception that left emit, the message to put
CallEmit(handler, m) ==
    IF handler = None
    THEN [emits |-> <<>>, exc |-> None, put |-> NoMessage]
    ELSE LET r == emit(m) IN
           [emits |-> <<m>>, exc |-> r.exc, put |-> IF r.put THEN r.message ELSE NoMessage]

\* The except branch: success = False, emit if handler, raise
WrappedExcept(handler, exc, funcCalls, before, event_name, schema) ==
    LET e == CallEmit(handler, WrappedMessage(event_name, "false", schema)) IN
      [funcCalls |-> funcCalls,
       observed |-> [kind |-> "raise", val |-> IF e.exc # None THEN e.exc ELSE exc],
       emits |-> before.emits \o e.emits, emitExc |-> e.exc,
       put |-> IF before.put # NoMessage THEN before.put ELSE e.put]

NothingEmitted == [emits |-> <<>>, exc |-> None, put |-> NoMessage]

\* usage_statistics_wrapped_method(*args, **kwargs): how often func ran, what
\* the caller observes, the messages passed to emit, the message emit will put
usage_statistics_wrapped_method(args, argsFn, func, resultFn, event_name, schema) ==
    IF argsFn = "raises"
    THEN WrappedExcept(None, "ArgsPayloadError", 0, NothingEmitted, event_name, schema)
    ELSE IF func.kind = "raise"
    THEN WrappedExcept(None, func.val, 1, NothingEmitted, event_name, schema)
    ELSE LET handler == get_usage_statistics_handler(args) IN
      IF resultFn = "raises"
      THEN WrappedExcept(handler, "ResultPayloadError", 1, NothingEmitted, event_name, schema)
      ELSE LET e == CallEmit(handler, WrappedMessage(event_name, "true", schema)) IN
        IF e.exc # None
        THEN WrappedExcept(handler, e.exc, 1, e, event_name, schema)
        ELSE [funcCalls |-> 1, observed |-> [kind |-> "return", val |-> func.val],
              emits |-> e.emits, emitExc |-> e.exc, put |-> e.put]

SuccessFlags(emits) == [i \in 1..Len(emits) |-> emits[i].success]

\* Thread t calls a decorated method
WrappedCall(t, arg, argsFn, func, resultFn, event_name, schema) ==
    /\ HostRuns(t)
    /\ emitPc[t] = "idle"
    /\ nCalls < MaxCalls
    /\ nCalls' = nCalls + 1
    /\ LET r == usage_statistics_wrapped_method(ArgsArray(arg), argsFn, func, resultFn,
                                                event_name, schema)
       IN /\ r.put # NoMessage => nAccepted < MaxEmits
          /\ call' = [arg |-> arg, argsFn |-> argsFn, func |-> func, resultFn |-> resultFn,
                      funcCalls |-> r.funcCalls, observed |-> r.observed,
                      emits |-> SuccessFlags(r.emits)]
          /\ nAccepted' = IF r.put # NoMessage THEN nAccepted + 1 ELSE nAccepted
          /\ lastEmit' = IF r.emits = <<>> THEN lastEmit
                         ELSE [input |-> r.emits[Len(r.emits)], raised |-> r.emitExc,
                               put |-> r.put # NoMessage, workerState |-> WorkerState]
          /\ IF r.put # NoMessage
             THEN /\ emitPc' = [emitPc EXCEPT ![t] = "put"]
                  /\ emitMsg' = [emitMsg EXCEPT ![t] = r.put]
             ELSE UNCHANGED <<emitPc, emitMsg>>
    /\ UNCHANGED <<dispatcherVars, mainVars, extVars>>

(* ---------------------------- specification ---------------------------- *)
(* ------------------- the puts of the main thread, by step --------------- *)
\* Queue.put runs "with self.not_full:", a Condition on the plain Lock
\* self.mutex: it takes the lock, appends, and releases.  A signal handler runs
\* on the main thread between two of its bytecodes, so also between these steps.

\* emit on the main thread enters put and takes the lock
MainPutAcquire ==
    /\ mainPc = "run" /\ sigStack = <<>>
    /\ emitPc["main"] = "put"
    /\ mutex = None
    /\ mutex' = "emit"
    /\ emitPc' = [emitPc EXCEPT !["main"] = "locked"]
    /\ UNCHANGED <<dispatcherVars, nAccepted, emitMsg, lastEmit, mainVars, callVars,
                   sendVars, classifyVars, registryVars, chainVars>>

\* it appends the message and releases the lock; emit returns
MainPutRelease ==
    /\ sigStack = <<>>
    /\ emitPc["main"] = "locked"
    /\ queue' = QueuePut(queue, emitMsg["main"], nPuts + 1)
    /\ nPuts' = nPuts + 1
    /\ mutex' = None
    /\ emitPc' = [emitPc EXCEPT !["main"] = "idle"]
    /\ emitMsg' = [emitMsg EXCEPT !["main"] = NoMessage]
    /\ UNCHANGED <<workerPc, inflight, posted, lastPost, lastPosted, firstStop, nAccepted,
                   lastEmit, mainVars, callVars, sendVars, classifyVars, registryVars, chainVars>>

\* A signal arrives: _teardown(signum, frame) starts on the main thread, on top
\* of what it was doing, and _close_worker enters put
SignalArrives(signum) ==
    /\ ProcessAlive
    /\ nSignals < MaxSignals
    /\ nSignals' = nSignals + 1
    /\ sigStack' = Append(sigStack, [signum |-> signum, pc |-> "acquire"])
    /\ UNCHANGED <<dispatcherVars, emitVars, mainPc, saved, nForwards, lastForward,
                   closeReturned, callVars, extVars>>

\* the put of the innermost _teardown takes the lock
TeardownAcquire ==
    /\ sigStack # <<>>
    /\ Top.pc = "acquire"
    /\ mutex = None
    /\ mutex' = "teardown"
    /\ sigStack' = [sigStack EXCEPT ![Len(sigStack)].pc = "locked"]
    /\ UNCHANGED <<dispatcherVars, emitVars, mainPc, nSignals, saved, nForwards, lastForward,
                   closeReturned, callVars, sendVars, classifyVars, registryVars, chainVars>>

\* it appends STOP_SIGNAL and releases the lock
TeardownPutStop ==
    /\ sigStack # <<>>
    /\ Top.pc = "locked"
    /\ PutStop
    /\ mutex' = None
    /\ sigStack' = [sigStack EXCEPT ![Len(sigStack)].pc = "join"]
    /\ UNCHANGED <<workerPc, inflight, posted, lastPost, lastPosted, emitVars,
                   mainPc, nSignals, saved, nForwards, lastForward, closeReturned, callVars,
                   sendVars, classifyVars, registryVars, chainVars>>

\* The interpreter exits: the put of the atexit hook takes the lock
AtExitAcquire ==
    /\ mainPc = "run"
    /\ sigStack = <<>>
    /\ emitPc["main"] = "idle"
    /\ mutex = None
    /\ mutex' = "atexit"
    /\ mainPc' = "atexit_locked"
    /\ UNCHANGED <<dispatcherVars, emitVars, sigStack, nSignals, saved, nForwards,
                   lastForward, closeReturned, callVars, sendVars, classifyVars, registryVars, chainVars>>

\* it appends STOP_SIGNAL and releases the lock
AtExitPutStop ==
    /\ mainPc = "atexit_locked"
    /\ sigStack = <<>>
    /\ PutStop
    /\ mutex' = None
    /\ mainPc' = "atexit_join"
    /\ UNCHANGED <<workerPc, inflight, posted, lastPost, lastPosted, emitVars,
                   sigStack, nSignals, saved, nForwards, lastForward, closeReturned, callVars,
                   sendVars, classifyVars, registryVars, chainVars>>

(* ---------------------------- two dispatchers -------------------------- *)
\* Two UsageStatisticsHandler objects constructed one after the other.  The
\* signal.signal calls of the later one return, and so it saves, the _teardown
\* of the earlier one; the earlier one has saved what was set before (saved).
Dispatchers == {"earlier", "later"}
Installed == "later"
ChAlive(d) == chWorker[d] \in {"get", "post", "draining"}
ChTop == chStack[Len(chStack)]
ChEntry(ev, d) == [ev |-> ev, d |-> d, alive |-> {e \in Dispatchers : ChAlive(e)}]

\* emit of dispatcher d puts a message
ChEmit(d) ==
    /\ chStack = <<>>
    /\ nChainPuts < MaxChainPuts
    /\ nChainPuts' = nChainPuts + 1
    /\ chQueue' = [chQueue EXCEPT ![d] = Append(@, "msg")]
    /\ UNCHANGED <<chWorker, chStack, chSignal, chLog, otherVars, registryVars>>

\* _requests_worker of dispatcher d: get
ChWorkerGet(d) ==
    /\ chWorker[d] = "get"
    /\ chQueue[d] # <<>>
    /\ chWorker' = [chWorker EXCEPT ![d] = IF Head(chQueue[d]) = "STOP" THEN "draining" ELSE "post"]
    /\ chQueue' = [chQueue EXCEPT ![d] = Tail(@)]
    /\ UNCHANGED <<chStack, chSignal, chLog, nChainPuts, otherVars, registryVars>>

\* session.post ends with outcome
ChWorkerPost(d, outcome) ==
    /\ chWorker[d] = "post"
    /\ chWorker' = [chWorker EXCEPT ![d] = AfterPost(outcome)]
    /\ UNCHANGED <<chQueue, chStack, chSignal, chLog, nChainPuts, otherVars, registryVars>>

\* task_done(); return
ChWorkerStop(d) ==
    /\ chWorker[d] = "draining"
    /\ chWorker' = [chWorker EXCEPT ![d] = "exited"]
    /\ UNCHANGED <<chQueue, chStack, chSignal, chLog, nChainPuts, otherVars, registryVars>>

\* The signal is delivered: the handler installed, _teardown of the later
\* dispatcher, starts and its _close_worker puts STOP_SIGNAL
ChSignal(signum) ==
    /\ chSignal = None
    /\ chSignal' = signum
    /\ chQueue' = [chQueue EXCEPT ![Installed] = Append(@, "STOP")]
    /\ chStack' = <<[d |-> Installed, pc |-> "join"]>>
    /\ UNCHANGED <<chWorker, chLog, nChainPuts, otherVars, registryVars>>

\* self._worker.join() of the innermost _teardown returns
ChJoin ==
    /\ chStack # <<>>
    /\ ChTop.pc = "join"
    /\ ~ChAlive(ChTop.d)
    /\ chLog' = Append(chLog, ChEntry("joined", ChTop.d))
    /\ chStack' = [chStack EXCEPT ![Len(chStack)].pc = "forward"]
    /\ UNCHANGED <<chQueue, chWorker, chSignal, nChainPuts, otherVars, registryVars>>

\* self._sigXXX_handler(signum, frame) of the later dispatcher: _teardown of the
\* earlier one starts and its _close_worker puts STOP_SIGNAL
ChForwardToEarlier ==
    /\ chStack # <<>>
    /\ ChTop.pc = "forward" /\ ChTop.d = "later"
    /\ chQueue' = [chQueue EXCEPT !["earlier"] = Append(@, "STOP")]
    /\ chStack' = Append([chStack EXCEPT ![Len(chStack)].pc = "called"],
                         [d |-> "earlier", pc |-> "join"])
    /\ UNCHANGED <<chWorker, chSignal, chLog, nChainPuts, otherVars, registryVars>>

\* self._sigXXX_handler(signum, frame) of the earlier dispatcher: what was set
\* before is called; a disposition that is no callable raises TypeError, and an
\* exception leaves both _teardown calls
ChForwardToOriginal(handlerOutcome) ==
    /\ chStack # <<>>
    /\ ChTop.pc = "forward" /\ ChTop.d = "earlier"
    /\ LET callable == saved[SavedHandlerFor(chSignal)] = "callable" IN
         /\ chLog' = IF callable THEN Append(chLog, ChEntry("original", "earlier")) ELSE chLog
         /\ chStack' = IF callable /\ handlerOutcome = "returns"
                       THEN SubSeq(chStack, 1, Len(chStack) - 1)
                       ELSE <<>>
    /\ UNCHANGED <<chQueue, chWorker, chSignal, nChainPuts, otherVars, registryVars>>

\* _teardown of the earlier dispatcher has returned into that of the later one,
\* which returns
ChReturn ==
    /\ chStack # <<>>
    /\ ChTop.pc = "called"
    /\ chStack' = <<>>
    /\ UNCHANGED <<chQueue, chWorker, chSignal, chLog, nChainPuts, otherVars, registryVars>>

(* -------------------------- send_usage_message ------------------------- *)
\* def emit(self, message): the arguments emit takes besides self
EmitArity == 1
\* handler.emit(message, payload_schema): the arguments send_usage_message passes
SendEmitArgs == 2
\* what getattr(data_context, "_usage_statistics_handler", None) finds
SendContexts == {"handler", "absent"}
\* success=None is put in the message as it is
SendSuccess == {"None", "true"}

\* send_usage_message(data_context, event, event_payload, success, payload_schema)
\* on a context of kind ctx with the message m it builds:
\* [exc: what leaves it, put: whether a message reaches the put, message]
send_usage_message(ctx, m) ==
    LET handler == IF ctx = "handler" THEN "handler" ELSE None
        nothing == [exc |-> None, put |-> FALSE, message |-> NoMessage]
        try == IF handler = None THEN nothing
               ELSE IF SendEmitArgs # EmitArity
               THEN [exc |-> "TypeError", put |-> FALSE, message |-> NoMessage]
               ELSE emit(m)
    IN \* except Exception: pass
       IF try.exc \in ExceptionKinds THEN nothing ELSE try

\* thread t calls send_usage_message: everything before a put it may reach
SendUsageMessage(t, ctx, m) ==
    /\ HostRuns(t)
    /\ emitPc[t] = "idle"
    /\ nSends < MaxSends
    /\ nSends' = nSends + 1
    /\ LET r == send_usage_message(ctx, m) IN
         /\ r.put => nAccepted < MaxEmits
         /\ nAccepted' = IF r.put THEN nAccepted + 1 ELSE nAccepted
         /\ send' = [ctx |-> ctx, input |-> m, raised |-> r.exc, put |-> r.put,
                     workerState |-> WorkerState]
         /\ IF r.put
            THEN /\ emitPc' = [emitPc EXCEPT ![t] = "put"]
                 /\ emitMsg' = [emitMsg EXCEPT ![t] = r.message]
            ELSE UNCHANGED <<emitPc, emitMsg>>
    /\ UNCHANGED <<dispatcherVars, lastEmit, mainVars, callVars, lockVars, classifyVars,
                   registryVars, chainVars>>

NoSend == [ctx |-> "absent", input |-> RawMessage("mapping", TRUE, OtherEvent, "None", "conforms", "ok"),
           raised |-> None, put |-> FALSE, workerState |-> "none"]

(* ------------------------------ Anonymizer ----------------------------- *)
\* Strings are sequences of characters, so that salt + string_ is a
\* concatenation; md5(...).hexdigest() is one-to-one on the few strings here.
md5(salted) == <<"md5:">> \o salted

\* Anonymizer.anonymize of an anonymizer with this salt
anonymize(salt, string_) == md5(salt \o string_)

\* Classes: C is a subclass of B, B of A; X stands apart.  __name__ of a class.
Classes == {"A", "B", "C", "X"}
Bases(c) == IF c = "C" THEN {"C", "B", "A"} ELSE IF c = "B" THEN {"B", "A"} ELSE {c}
issubclass(c, d) == d \in Bases(c)
ClassName(c) == <<c>>
NotRecognized == <<"__not_recognized__">>

\* a key of anonymized_info_dict: missing, or holding a string
Missing == [present |-> FALSE, val |-> <<>>]
Holding(v) == [present |-> TRUE, val |-> v]
\* not d.get(key): the key is missing or holds the empty string
Falsy(entry) == ~entry.present \/ entry.val = <<>>

\* the for loop of anonymize_object_info over what is left of ge_classes
RECURSIVE ForGeClasses(_, _, _, _)
ForGeClasses(salt, object_class, info, ge_classes) ==
    IF ge_classes = <<>> THEN info
    ELSE LET ge_class == Head(ge_classes) IN
      IF issubclass(object_class, ge_class)
      THEN LET named == [info EXCEPT !.parent_class = Holding(ClassName(ge_class))]
           IN IF ~(object_class = ge_class)
              THEN [named EXCEPT !.anonymized_class =
                                     Holding(anonymize(salt, ClassName(object_class)))]
              ELSE named
      ELSE ForGeClasses(salt, object_class, info, Tail(ge_classes))

\* Anonymizer.anonymize_object_info(object_, anonymized_info_dict, ge_classes)
anonymize_object_info(salt, object_class, info, ge_classes) ==
    LET looped == ForGeClasses(salt, object_class, info, ge_classes) IN
      IF Falsy(looped.parent_class)
      THEN [looped EXCEPT !.parent_class = Holding(NotRecognized),
                          !.anonymized_class =
                              Holding(anonymize(salt, ClassName(object_class)))]
      ELSE looped

\* the mappings callers pass: the two keys missing, or left over from before
InfoDicts ==
    [parent_class : {Missing, Holding(<<>>), Holding(ClassName("X"))},
     anonymized_class : {Missing, Holding(anonymize(<<"s">>, ClassName("X")))}]
GeClassLists == UNION {[1..n -> Classes] : n \in 0..MaxGeClasses}
ClassifyInputs ==
    [salt : {<<"s">>}, object_class : Classes, info : InfoDicts, ge_classes : GeClassLists]
NoClassifyInput ==
    [salt |-> <<>>, object_class |-> "X", info |-> [parent_class |-> Missing,
     anonymized_class |-> Missing], ge_classes |-> <<>>]
NoClassifyResult == [returned |-> FALSE, info |-> NoClassifyInput.info]

\* the call is made
Classify ==
    /\ ~clsOut.returned
    /\ clsIn # NoClassifyInput
    /\ clsOut' = [returned |-> TRUE,
                  info |-> anonymize_object_info(clsIn.salt, clsIn.object_class,
                                                 clsIn.info, clsIn.ge_classes)]
    /\ UNCHANGED <<dispatcherVars, emitVars, mainVars, callVars, lockVars, sendVars, clsIn,
                   registryVars, chainVars>>

(* ----------------- run_validation_operator_usage_statistics ------------- *)
\* data_context.data_context_id: a string, missing (None), or not a string
OwnerIds == {"str", "none", "int"}
OwnerIdString == <<"i", "d">>
\* secrets.token_hex(8): any of the values it can return
RandomSalts == {<<"r1">>, <<"r2">>}
OperatorNames == {<<"o">>, <<"p">>}
NoContext == [id |-> 0, salt |-> <<>>]
\* Anonymizer.__init__(salt): the salts the new object can have
SaltsFor(owner) == IF owner = "str" THEN {OwnerIdString} ELSE RandomSalts
NoRegCall == [owner |-> "none", name |-> <<>>, anonymizer |-> NoContext,
              returned |-> FALSE, digest |-> <<>>]

\* thread t calls run_validation_operator_usage_statistics: data_context_id is read
RegBegin(t, owner, name) ==
    /\ regPc[t] = "idle"
    /\ nRegCalls < MaxRegCalls
    /\ nRegCalls' = nRegCalls + 1
    /\ regCall' = [regCall EXCEPT ![t] = [NoRegCall EXCEPT !.owner = owner, !.name = name]]
    /\ regPc' = [regPc EXCEPT ![t] = "get"]
    /\ UNCHANGED <<registry, firstStored, nContexts, otherVars, chainVars>>

\* anonymizer = _anonymizers.get(data_context_id, None); if anonymizer is None:
RegGet(t) ==
    /\ regPc[t] = "get"
    /\ LET found == registry[regCall[t].owner] IN
         /\ regCall' = [regCall EXCEPT ![t].anonymizer = found]
         /\ regPc' = [regPc EXCEPT ![t] = IF found = NoContext THEN "create" ELSE "anonymize"]
    /\ UNCHANGED <<registry, firstStored, nContexts, nRegCalls, otherVars, chainVars>>

\* anonymizer = Anonymizer(data_context_id)
RegCreate(t, salt) ==
    /\ regPc[t] = "create"
    /\ salt \in SaltsFor(regCall[t].owner)
    /\ nContexts' = nContexts + 1
    /\ regCall' = [regCall EXCEPT ![t].anonymizer = [id |-> nContexts + 1, salt |-> salt]]
    /\ regPc' = [regPc EXCEPT ![t] = "store"]
    /\ UNCHANGED <<registry, firstStored, nRegCalls, otherVars, chainVars>>

\* _anonymizers[data_context_id] = anonymizer
RegStore(t) ==
    /\ regPc[t] = "store"
    /\ LET owner == regCall[t].owner IN
         /\ registry' = [registry EXCEPT ![owner] = regCall[t].anonymizer]
         /\ firstStored' = IF firstStored[owner] = NoContext
                           THEN [firstStored EXCEPT ![owner] = regCall[t].anonymizer]
                           ELSE firstStored
    /\ regPc' = [regPc EXCEPT ![t] = "anonymize"]
    /\ UNCHANGED <<nContexts, regCall, nRegCalls, otherVars, chainVars>>

\* payload["anonymized_operator_name"] = anonymizer.anonymize(validation_operator_name)
RegAnonymize(t) ==
    /\ regPc[t] = "anonymize"
    /\ regCall' = [regCall EXCEPT ![t].returned = TRUE,
                                  ![t].digest = anonymize(regCall[t].anonymizer.salt,
                                                          regCall[t].name)]
    /\ regPc' = [regPc EXCEPT ![t] = "idle"]
    /\ UNCHANGED <<registry, firstStored, nContexts, nRegCalls, otherVars, chainVars>>

NoEmit == [input |-> RawMessage("mapping", FALSE, "-", "absent", "conforms", "ok"),
           raised |-> None, put |-> FALSE, workerState |-> "none"]
NoForward == [signum |-> "-", handlerOf |-> "-", disposition |-> "-", invoked |-> FALSE,
              raised |-> None, handlerOutcome |-> "-", workerState |-> "none"]

NoCall == [arg |-> "no_args", argsFn |-> "none", func |-> [kind |-> "none", val |-> "-"],
           resultFn |-> "none", funcCalls |-> 0, observed |-> NoObservation, emits |-> <<>>]

\* The state after UsageStatisticsHandler.__init__: an empty queue, the worker
\* started, the three previous handlers saved
InitHandler ==
    /\ queue = <<>>
    /\ workerPc = "get"
    /\ inflight = NoMessage
    /\ posted = <<>>
    /\ lastPost = None
    /\ lastPosted = NoPost
    /\ nPuts = 0
    /\ firstStop = 0
    /\ nAccepted = 0
    /\ emitPc = [t \in Threads |-> "idle"]
    /\ emitMsg = [t \in Threads |-> NoMessage]
    /\ lastEmit = NoEmit
    /\ mainPc = "run"
    /\ sigStack = <<>>
    /\ nSignals = 0
    /\ saved \in SavedConfigs
    /\ nForwards = 0
    /\ lastForward = NoForward
    /\ closeReturned = 0
    /\ nCalls = 0
    /\ call = NoCall
    /\ mutex = None
    /\ nSends = 0
    /\ send = NoSend

\* _anonymizers = dict()
InitRegistry ==
    /\ registry = [o \in OwnerIds |-> NoContext]
    /\ firstStored = [o \in OwnerIds |-> NoContext]
    /\ nContexts = 0
    /\ regPc = [t \in Threads |-> "idle"]
    /\ regCall = [t \in Threads |-> NoRegCall]
    /\ nRegCalls = 0

InitChain ==
    /\ chQueue = [d \in Dispatchers |-> <<>>]
    /\ chWorker = [d \in Dispatchers |-> "get"]
    /\ chStack = <<>>
    /\ chSignal = None
    /\ chLog = <<>>
    /\ nChainPuts = 0

Init ==
    /\ InitHandler
    /\ clsIn = NoClassifyInput
    /\ clsOut = NoClassifyResult
    /\ InitRegistry
    /\ InitChain

Next ==
    \/ WorkerGet
    \/ WorkerStop
    \/ \E outcome \in PostOutcomes : WorkerPost(outcome)
    \/ \E t \in Threads, m \in CoreMessages : EmitBegin(t, m)
    \/ \E t \in Threads : EmitPut(t)
    \/ \E signum \in Signals : Teardown(signum)
    \/ TeardownJoin
    \/ \E handlerOutcome \in HandlerOutcomes : TeardownForward(handlerOutcome)
    \/ AtExit
    \/ AtExitJoin

\* The dispatcher: producers on two threads, the worker, signals and exit
Spec == Init /\ [][Next]_vars

\* emit on every kind of argument, in every state of the worker
NextEmit ==
    \/ WorkerGet
    \/ WorkerStop
    \/ \E outcome \in PostOutcomes : WorkerPost(outcome)
    \/ \E t \in Threads, m \in DirectMessages : EmitBegin(t, m)
    \/ \E t \in Threads : EmitPut(t)
    \/ AtExit
    \/ AtExitJoin

SpecEmit == Init /\ [][NextEmit]_vars

\* Calls of a decorated method on the main thread, feeding the dispatcher
NextCall ==
    \/ WorkerGet
    \/ WorkerStop
    \/ \E outcome \in PostOutcomes : WorkerPost(outcome)
    \/ \E arg \in ArgKinds, argsFn \in PayloadFns, func \in FuncOutcomes,
          resultFn \in PayloadFns, event_name \in EventNames, schema \in SchemaVerdicts :
            WrappedCall("main", arg, argsFn, func, resultFn, event_name, schema)
    \/ EmitPut("main")
    \/ AtExit
    \/ AtExitJoin

SpecCall == Init /\ [][NextCall]_vars

\* The dispatcher with the puts of the main thread taken step by step.  The
\* worker takes its steps when it can, every POST ends, and the main thread goes
\* on with what it has begun; when signals arrive, when the host emits and when
\* the interpreter exits is up to the environment.
NextLock ==
    \/ WorkerGet
    \/ WorkerStop
    \/ \E outcome \in PostOutcomes : WorkerPost(outcome)
    \/ \E m \in CoreMessages : EmitBegin("main", m)
    \/ MainPutAcquire
    \/ MainPutRelease
    \/ \E signum \in Signals : SignalArrives(signum)
    \/ TeardownAcquire
    \/ TeardownPutStop
    \/ TeardownJoin
    \/ \E handlerOutcome \in HandlerOutcomes : TeardownForward(handlerOutcome)
    \/ AtExitAcquire
    \/ AtExitPutStop
    \/ AtExitJoin

LockFairness ==
    /\ WF_vars(WorkerGet)
    /\ WF_vars(WorkerStop)
    /\ WF_vars(\E outcome \in PostOutcomes : WorkerPost(outcome))
    /\ WF_vars(MainPutAcquire)
    /\ WF_vars(MainPutRelease)
    /\ WF_vars(TeardownAcquire)
    /\ WF_vars(TeardownPutStop)
    /\ WF_vars(TeardownJoin)
    /\ WF_vars(\E handlerOutcome \in HandlerOutcomes : TeardownForward(handlerOutcome))
    /\ WF_vars(AtExitPutStop)
    /\ WF_vars(AtExitJoin)

SpecLock == Init /\ [][NextLock]_vars /\ LockFairness

\* send_usage_message next to direct callers of emit
SendMessages ==
    { RawMessage("mapping", TRUE, e, sc, v, "ok") :
        e \in {OtherEvent, InitEvent}, sc \in SendSuccess, v \in {"conforms", "violates"} }
NextSend ==
    \/ WorkerGet
    \/ WorkerStop
    \/ \E outcome \in PostOutcomes : WorkerPost(outcome)
    \/ \E t \in Threads, ctx \in SendContexts, m \in SendMessages : SendUsageMessage(t, ctx, m)
    \/ \E t \in Threads, m \in CoreMessages : EmitBegin(t, m)
    \/ \E t \in Threads : EmitPut(t)
    \/ AtExit
    \/ AtExitJoin

SpecSend == Init /\ [][NextSend]_vars

\* two dispatchers and one signal
NextChain ==
    \/ \E d \in Dispatchers : ChEmit(d)
    \/ \E d \in Dispatchers : ChWorkerGet(d)
    \/ \E d \in Dispatchers, outcome \in PostOutcomes : ChWorkerPost(d, outcome)
    \/ \E d \in Dispatchers : ChWorkerStop(d)
    \/ \E signum \in Signals : ChSignal(signum)
    \/ ChJoin
    \/ ChForwardToEarlier
    \/ \E handlerOutcome \in HandlerOutcomes : ChForwardToOriginal(handlerOutcome)
    \/ ChReturn
SpecChain == Init /\ [][NextChain]_vars

\* threads calling run_validation_operator_usage_statistics
NextRegistry ==
    \/ \E t \in Threads, owner \in OwnerIds, name \in OperatorNames : RegBegin(t, owner, name)
    \/ \E t \in Threads : RegGet(t)
    \/ \E t \in Threads, salt \in RandomSalts \cup {OwnerIdString} : RegCreate(t, salt)
    \/ \E t \in Threads : RegStore(t)
    \/ \E t \in Threads : RegAnonymize(t)
SpecRegistry == Init /\ [][NextRegistry]_vars

\* anonymize_object_info applied to every input of ClassifyInputs
InitClassify ==
    /\ InitHandler
    /\ clsIn \in ClassifyInputs
    /\ clsOut = NoClassifyResult
    /\ InitRegistry
    /\ InitChain
NextClassify == Classify
SpecClassify == InitClassify /\ [][NextClassify]_vars

(* ------------------------------- claims -------------------------------- *)
Range(seq) == {seq[i] : i \in 1..Len(seq)}
QueuedMessages == {queue[i] : i \in {j \in 1..Len(queue) : queue[j] # STOP_SIGNAL}}

\* C1 (as claimed): once the worker has ended or a _close_worker call has
\* returned, every message put on the queue before the first STOP_SIGNAL has
\* had its POST attempted, whatever the outcome of each POST was.
C1_ShutdownDrain ==
    (firstStop > 0 /\ (~WorkerAlive \/ closeReturned > 0))
        => \A n \in 1..(firstStop - 1) : n \in Range(posted)

\* C2 (as claimed): when the wrapped operation raises E, the caller observes
\* exactly E, and if the first argument carries a valid handler, exactly one
\* message, with success = false, has been passed to emit.
C2_FailurePath ==
    (call.funcCalls = 1 /\ call.func.kind = "raise")
        => /\ call.observed = [kind |-> "raise", val |-> call.func.val]
           /\ call.arg = "handler" => call.emits = <<"false">>

\* C3 (as claimed): when the wrapped operation returns V, the caller receives
\* exactly V, and if a handler is resolvable on the first argument after the
\* call, exactly one message, with success = true, has been passed to emit.
C3_SuccessPath ==
    (call.funcCalls = 1 /\ call.func.kind = "return")
        => /\ call.observed = [kind |-> "return", val |-> call.func.val]
           /\ call.arg = "handler" => call.emits = <<"true">>

\* C4 (as claimed): whatever the telemetry steps do, the wrapped operation is
\* invoked exactly once and the caller observes its own return value or its
\* own exception.
C4_TelemetryNeverAltersHost ==
    nCalls > 0 => /\ call.funcCalls = 1
                  /\ call.observed = call.func

\* C5: emit never raises: no exception leaves an emit call, whatever its
\* argument and whatever the state of the worker.
C5_EmitNeverRaises == lastEmit.raised = None

\* C5 witness: emit was called with an argument that is no mapping while the
\* worker had stopped, and returned normally
C5_Witness ==
    /\ lastEmit.input.shape = "not_mapping"
    /\ lastEmit.workerState = "Stopped"
    /\ lastEmit.raised = None

\* C6: validation gate: every message on the queue, about to be put or being
\* POSTed conforms to the schema, and an emit of a message that does not
\* conform goes on to no put.
C6_ValidationGate ==
    /\ \A m \in QueuedMessages : m.schema = "conforms"
    /\ inflight # NoMessage => inflight.schema = "conforms"
    /\ \A t \in Threads : emitPc[t] = "put" => emitMsg[t].schema = "conforms"
    /\ lastEmit.input.schema # "conforms" => ~lastEmit.put

\* C6 witness: a message failing validation was emitted and dropped, after a
\* conforming one had gone through to its POST
C6_Witness ==
    /\ lastEmit.input.shape = "mapping" /\ lastEmit.input.hasEvent
    /\ lastEmit.input.schema = "violates"
    /\ ~lastEmit.put
    /\ Len(posted) > 0

\* C7: FIFO transmission: POSTs are attempted in the order of the puts.
C7_FifoTransmission ==
    /\ \A i, j \in 1..Len(posted) : i < j => posted[i] < posted[j]
    /\ inflight # NoMessage => \A i \in 1..Len(posted) : posted[i] < inflight.seq
    /\ \A m \in QueuedMessages :
         /\ \A i \in 1..Len(posted) : posted[i] < m.seq
         /\ inflight # NoMessage => inflight.seq < m.seq

\* C7 witness: two messages were put and both POSTs attempted
C7_Witness == Len(posted) >= 2

\* C8: signal ordering: whenever _teardown reaches its forwarding step, and
\* whenever the previous disposition is invoked, the worker has ended.
C8_SignalOrdering ==
    nForwards > 0 => lastForward.workerState = "Stopped"

\* C8 witness: SIGINT was forwarded to the callable saved for it, after the
\* worker had attempted a POST and ended
C8_Witness ==
    /\ lastForward.signum = "SIGINT"
    /\ lastForward.invoked
    /\ Len(posted) > 0
    /\ workerPc = "exited"

\* C9 (as claimed): every forwarding step invokes the handler saved for the
\* signal received, whatever it was, and raises nothing.
C9_SignalForwarding ==
    nForwards > 0 => /\ lastForward.handlerOf = lastForward.signum
                     /\ lastForward.invoked
                     /\ lastForward.raised = None

\* C10 (as claimed): a failed POST (an error status, or the transport raising)
\* is not retried and leaves the worker running.
C10_WorkerSurvivesFailedPost ==
    /\ \A i, j \in 1..Len(posted) : i # j => posted[i] # posted[j]
    /\ lastPost \in FailedPost => workerPc # "died"

\* the messages put on the queue so far: every put but the STOP_SIGNALs, one
\* for each signal delivered and one for the exit hook
MessagesPut ==
    nPuts - nSignals - (IF mainPc \in {"atexit_join", "done"} THEN 1 ELSE 0)

\* C11: at-most-once delivery: no message is the subject of two POST attempts
\* (none attempted is still queued or in flight), and the POSTs attempted never
\* outnumber the messages put on the queue.
C11_AtMostOnce ==
    /\ \A i, j \in 1..Len(posted) : i # j => posted[i] # posted[j]
    /\ inflight # NoMessage => inflight.seq \notin Range(posted)
    /\ \A m \in QueuedMessages : m.seq \notin Range(posted) /\ m.seq # inflight.seq
    /\ \A i, j \in 1..Len(queue) :
         (i # j /\ queue[i] # STOP_SIGNAL) => queue[i] # queue[j]
    /\ Len(posted) + (IF inflight # NoMessage THEN 1 ELSE 0) <= MessagesPut

\* C11 witness: a POST failed with an error status, a second message was
\* POSTed after it, and a signal was handled meanwhile
C11_Witness ==
    /\ Len(posted) = 2
    /\ lastPost = "status_error"
    /\ nSignals > 0
    /\ closeReturned > 0

\* C12 (as claimed): a call with no positional argument, or with a first
\* argument that has no handler attribute or one of the wrong type, emits
\* nothing and hands the wrapped operation's own outcome to the caller.
C12_ResolutionFailureSilent ==
    (nCalls > 0 /\ call.arg \in {"no_args", "absent", "invalid"})
        => /\ call.emits = <<>>
           /\ call.funcCalls = 1
           /\ call.observed = call.func

IsPrefix(s, t) == Len(s) <= Len(t) /\ SubSeq(t, 1, Len(s)) = s
CloseWaiting ==
    \/ mainPc = "atexit_join" /\ sigStack = <<>>
    \/ sigStack # <<>> /\ Top.pc = "join"

C20_SuccessReflectsHost ==
    /\ Len(call.emits) <= 1
    /\ \A i \in 1..Len(call.emits) :
         call.emits[i] = "true" <=> (call.funcCalls = 1 /\ call.func.kind = "return")

\* the message bodies there are: about to be put, queued, in flight, last POSTed
PendingBodies == {emitMsg[t] : t \in {u \in Threads : emitPc[u] = "put"}}
Bodies ==
    PendingBodies \cup QueuedMessages
        \cup (IF inflight # NoMessage THEN {inflight} ELSE {})
        \cup (IF lastPosted # NoPost THEN {lastPosted.json} ELSE {})
\* the body emit makes of an init event it was handed as raw message m
InitBody(m, n) ==
    [kind |-> "msg", seq |-> n, event |-> InitEvent, event_payload |-> "init_payload",
     success |-> m.success, enveloped |-> TRUE, schema |-> m.schema]
\* the scenario of one emit, of an init event, and nothing else emitted
OneInitEmit ==
    /\ nAccepted = 1
    /\ \A m \in Bodies : m.event = InitEvent
\* the message is on the queue ahead of every STOP_SIGNAL, the process running
AheadOfStop(m) == ProcessAlive /\ (firstStop = 0 \/ m.seq < firstStop)

\* C14: one emit of a "data_context.__init__" message on a running dispatcher
\* makes one body whose event is unchanged, whose event_payload is the init
\* payload whatever the caller supplied, and whose success is what the caller
\* supplied (emit sets none); that body is put once and POSTed once to the
\* configured url: it is in one place at a time, and while it is queued ahead of
\* a STOP_SIGNAL or in flight the worker's next step on it is enabled.
C14_InitEventEndToEnd ==
    /\ [][\A t \in Threads :
            (emitPc[t] = "idle" /\ emitPc'[t] = "put" /\ lastEmit'.input.event = InitEvent)
                => emitMsg'[t] = InitBody(lastEmit'.input, 0)]_vars
    /\ [](\A m \in Bodies :
            m.event = InitEvent => m.event_payload = "init_payload" /\ m.enveloped)
    /\ [](OneInitEmit =>
            /\ MessagesPut <= 1 /\ Len(posted) <= 1
            /\ Cardinality(Bodies) = 1
            /\ Len(posted) = 1 =>
                 /\ lastPosted.url = Url
                 /\ lastPosted.json.seq = posted[1]
                 /\ PendingBodies = {} /\ QueuedMessages = {} /\ inflight = NoMessage
            /\ \A m \in QueuedMessages : AheadOfStop(m) =>
                 /\ workerPc \in {"get", "post"}
                 /\ workerPc = "get" => Head(queue) = m /\ ENABLED WorkerGet
            /\ (inflight # NoMessage /\ ProcessAlive) =>
                 ENABLED (\E outcome \in PostOutcomes : WorkerPost(outcome)))

\* C14 witness: the one message emitted was an init event whose caller set
\* success, and its POST was made
C14_Witness ==
    /\ OneInitEmit
    /\ lastEmit.input.event = InitEvent /\ lastEmit.input.success = "true"
    /\ Len(posted) = 1
    /\ lastPosted.json = InitBody(lastEmit.input, 1)
    /\ lastPosted.url = Url

\* C15 (as claimed): send_usage_message returns without raising; on a context
\* whose handler is running, with a message the schema accepts, one message
\* goes to the queue; on a context without a handler, none.
C15_SendUsageMessage ==
    nSends > 0 =>
        /\ send.raised = None
        /\ send.ctx = "absent" => ~send.put
        /\ (send.ctx = "handler" /\ send.workerState = "Running"
              /\ send.input.schema = "conforms") => send.put

\* the places of ge_classes whose class the object's class is a subclass of
Matches(object_class, ge_classes) ==
    {i \in 1..Len(ge_classes) : issubclass(object_class, ge_classes[i])}
FirstMatch(object_class, ge_classes) ==
    CHOOSE i \in Matches(object_class, ge_classes) :
        \A j \in Matches(object_class, ge_classes) : i <= j

\* C16 (as claimed): whatever the mapping passed in holds, the mapping returned
\* has parent_class = the name of the first class of the list the object's
\* class is a subclass of, with anonymized_class missing if the object's class
\* is that class and the digest of its name otherwise; if no class matches,
\* parent_class = "__not_recognized__" and anonymized_class is the digest.
C16_ClassificationRule ==
    clsOut.returned =>
      LET oc == clsIn.object_class
          ge == clsIn.ge_classes
          digest == Holding(anonymize(clsIn.salt, ClassName(oc)))
      IN IF Matches(oc, ge) # {}
         THEN LET first == ge[FirstMatch(oc, ge)] IN
                /\ clsOut.info.parent_class = Holding(ClassName(first))
                /\ clsOut.info.anonymized_class = (IF oc = first THEN Missing ELSE digest)
         ELSE /\ clsOut.info.parent_class = Holding(NotRecognized)
              /\ clsOut.info.anonymized_class = digest

\* C13 (as claimed): whatever the interleaving of calls for one owner id, the
\* registry holds for it the Anonymizer stored first, every call that returned
\* used that Anonymizer, and calls with equal operator names got equal digests.
C13_FirstWriterWins ==
    /\ \A o \in OwnerIds : firstStored[o] # NoContext => registry[o] = firstStored[o]
    /\ \A t \in Threads :
         regCall[t].returned => regCall[t].anonymizer = firstStored[regCall[t].owner]
    /\ \A t, u \in Threads :
         (regCall[t].returned /\ regCall[u].returned
            /\ regCall[t].owner = regCall[u].owner /\ regCall[t].name = regCall[u].name)
           => regCall[t].digest = regCall[u].digest

\* a _close_worker call has begun and not yet ended
ClosePending ==
    \/ mainPc \in {"atexit_locked", "atexit_join"}
    \/ \E i \in 1..Len(sigStack) : sigStack[i].pc \in {"acquire", "locked", "join"}

\* C17 (as claimed): every _close_worker call that has begun, from the exit
\* hook or from a signal handler, also one that interrupted an emit of the main
\* thread, comes to its end, and it returns only with the worker thread ended.
C17_ShutdownTerminates ==
    /\ ClosePending ~> ~ClosePending
    /\ [][closeReturned' > closeReturned => ~WorkerAlive']_vars

\* C19 (as claimed): one delivery of a signal joins the worker of the later
\* dispatcher, then the worker of the earlier one, and then, both workers
\* ended, calls the disposition set before either dispatcher, once.
C19_ChainAcrossDispatchers ==
    /\ \A i \in 1..Len(chLog) :
         /\ i = 1 => chLog[i] = [ev |-> "joined", d |-> "later",
                                 alive |-> chLog[i].alive \ {"later"}]
         /\ i = 2 => chLog[i] = [ev |-> "joined", d |-> "earlier", alive |-> {}]
         /\ i = 3 => chLog[i] = [ev |-> "original", d |-> "earlier", alive |-> {}]
    /\ Len(chLog) <= 3
    /\ (chSignal # None /\ chStack = <<>>) => Len(chLog) = 3

=============================================================================
